---------------------------- MODULE Spec2Model ----------------------------
(***************************************************************************)
(* Green Button XML to Home Assistant statistics SQL.                      *)
(*                                                                         *)
(* Model of the two command line pipelines of the repository,              *)
(*   greenbutton-to-sql.js  (single export)                                *)
(*   merge-greenbutton.js   (primary export + secondary export)            *)
(* and of the destination tables the generated SQL is executed against.    *)
(*                                                                         *)
(* Representation choices                                                  *)
(*  - A parsed XML document is the object tree xml2js returns: a feed with *)
(*    entries, each entry with an optional content holding IntervalBlocks, *)
(*    each block a sequence of IntervalReadings.  An optional child        *)
(*    element is a sequence of length 0 or 1, as in xml2js.                *)
(*  - Timestamps are epoch seconds, as in the code.                        *)
(*  - kWh and CAD amounts are JavaScript doubles in the code.  Here they   *)
(*    are exact integers counted in units of 1/Resolution (1e-7), one      *)
(*    decimal place finer than the 6 places the code rounds to.            *)
(*  - A statistic id 'hydroone:on_peak' is the pair <<"hydroone",          *)
(*    "on_peak">>, so that LIKE 'hydroone:%' is a test on the prefix.      *)
(***************************************************************************)
EXTENDS Integers, Sequences, FiniteSets, TLC

VARIABLES
    pipeline,          \* "single" (greenbutton-to-sql.js) or "merge" (merge-greenbutton.js)
    clearExisting,     \* args.includes('--clear')
    tzOffset,          \* UTC offset (seconds) of the zone of the machine running node
    primaryExists,     \* fs.existsSync(inputPath / primaryPath)
    secondaryExists,   \* fs.existsSync(secondaryPath)
    primaryDoc,        \* content of the input / primary XML file
    secondaryDoc,      \* content of the secondary XML file
    pc,                \* position in main()
    primaryReadings,   \* result of parseGreenButtonXML on the input / primary file
    secondaryReadings, \* result of parseGreenButtonXML on the secondary file
    readings,          \* readings (single) or mergedReadings (merge)
    touGroups,         \* result of groupByTOU
    dailyReadings,     \* result of aggregateToDaily
    sql,               \* the artifact being built: a sequence of lines / statements
    outputFile,        \* sequence of the artifacts written by fs.writeFileSync
    exitCode,          \* process exit code (-1 while running)
    db,                \* destination: statistics_meta, statistics, statistics_short_term
    executions         \* number of times the written artifact was executed against db

vars == <<pipeline, clearExisting, tzOffset, primaryExists, secondaryExists,
          primaryDoc, secondaryDoc, pc, primaryReadings, secondaryReadings,
          readings, touGroups, dailyReadings, sql, outputFile, exitCode, db,
          executions>>

inputs == <<pipeline, clearExisting, tzOffset, primaryExists, secondaryExists,
            primaryDoc, secondaryDoc>>

-----------------------------------------------------------------------------
(* CONFIG and other program constants *)

consumptionDivisor == 1000000
costDivisor == 100000
hourlyDuration == 3600
defaultTou == 3
roundFactor == 1000000
batchSize == 500
dailyHourUTC == 5

SecondsPerHour == 60 * 60
SecondsPerDay == 24 * SecondsPerHour

\* Amounts are counted in units of 1/Resolution: one decimal finer than roundFactor.
Resolution == 10 * roundFactor

Prefix == "hydroone"

statisticIds ==
    [ onPeak      |-> <<Prefix, "on_peak">>,
      midPeak     |-> <<Prefix, "mid_peak">>,
      offPeak     |-> <<Prefix, "off_peak">>,
      onPeakCost  |-> <<Prefix, "on_peak_cost">>,
      midPeakCost |-> <<Prefix, "mid_peak_cost">>,
      offPeakCost |-> <<Prefix, "off_peak_cost">>,
      dailyUsage  |-> <<Prefix, "daily_usage">>,
      dailyCost   |-> <<Prefix, "daily_cost">> ]

touMapping(tou) ==
    CASE tou = 1 -> "On-Peak"
      [] tou = 2 -> "Mid-Peak"
      [] tou = 3 -> "Off-Peak"
      [] OTHER   -> "Off-Peak"

-----------------------------------------------------------------------------
(* Generic sequence helpers *)

Range(s) == { s[i] : i \in DOMAIN s }

RECURSIVE SumSeq(_)
SumSeq(s) == IF s = <<>> THEN 0 ELSE s[1] + SumSeq(Tail(s))

RECURSIVE Flatten(_)
Flatten(ss) == IF ss = <<>> THEN <<>> ELSE ss[1] \o Flatten(Tail(ss))

MapSeq(s, F(_)) == [ i \in DOMAIN s |-> F(s[i]) ]

\* A loop over a long sequence is written as the loop over its first half followed
\* by the loop over its second half: the same iterations in the same order.  The
\* test on the result of the first half has it evaluated before the second half is
\* entered, which keeps the depth of evaluation logarithmic in the length, so that
\* exports of weeks of hours can be checked.
FirstHalf(s) == SubSeq(s, 1, Len(s) \div 2)
SecondHalf(s) == SubSeq(s, Len(s) \div 2 + 1, Len(s))
Evaluated(v) == v = v

\* All sequences over S of length at most n.
SeqsUpTo(S, n) == UNION { [1..k -> S] : k \in 0..n }

\* Number of positions of s holding x.
Count(s, x) == Cardinality({ i \in DOMAIN s : s[i] = x })

-----------------------------------------------------------------------------
(* Reading Extractor: parseGreenButtonXML *)

\* (x && x[0]) || dflt, then parseInt: an optional child element holding an integer.
IntOr(opt, dflt) == IF opt = <<>> THEN dflt ELSE opt[1]

\* value / divisor as an amount in units of 1/Resolution (exact: divisor divides Resolution).
Amount(raw, divisor) == raw * (Resolution \div divisor)

\* The duration test of the extractor.
IsHourly(ir) == ir.duration = hourlyDuration

\* Variant of the placeholder test with a plausible slip, used to test the properties below.
IsPlaceholderEither(ir) == IntOr(ir.value, 0) = 0 \/ IntOr(ir.cost, 0) = 0

\* The placeholder test of the extractor: value === 0 && cost === 0.
IsPlaceholder(ir) == IntOr(ir.value, 0) = 0 /\ IntOr(ir.cost, 0) = 0

\* The reading pushed for one IntervalReading.
MakeReading(ir) ==
    [ timestamp   |-> ir.start,
      consumption |-> Amount(IntOr(ir.value, 0), consumptionDivisor),
      cost        |-> Amount(IntOr(ir.cost, 0), costDivisor),
      tou         |-> IntOr(ir.tou, defaultTou),
      touName     |-> touMapping(IntOr(ir.tou, defaultTou)) ]

\* The readings one IntervalBlock contributes, in document order.
BlockReadings(block) ==
    MapSeq(SelectSeq(block, LAMBDA ir : IsHourly(ir) /\ ~IsPlaceholder(ir)), MakeReading)

\* The readings one entry contributes: none without content or without IntervalBlock.
EntryReadings(entry) ==
    IF ~entry.hasContent THEN <<>>
    ELSE Flatten(MapSeq(entry.blocks, BlockReadings))

\* Variant of the insertion that puts r before the elements of its timestamp,
\* used to test the properties below.
RECURSIVE InsertBeforeTies(_, _)
InsertBeforeTies(r, s) ==
    IF s = <<>> THEN <<r>>
    ELSE IF s[Len(s)].timestamp < r.timestamp THEN Append(s, r)
    ELSE Append(InsertBeforeTies(r, SubSeq(s, 1, Len(s) - 1)), s[Len(s)])

\* Insert r behind every element whose timestamp is not larger (keeps ties in order).
RECURSIVE InsertByTimestamp(_, _)
InsertByTimestamp(r, s) ==
    IF s = <<>> THEN <<r>>
    ELSE IF s[Len(s)].timestamp <= r.timestamp THEN Append(s, r)
    ELSE Append(InsertByTimestamp(r, SubSeq(s, 1, Len(s) - 1)), s[Len(s)])

\* The elements of rs inserted one by one, first to last, into sorted.
RECURSIVE SortLoop(_, _)
SortLoop(rs, sorted) ==
    IF rs = <<>> THEN sorted
    ELSE IF Len(rs) = 1 THEN InsertByTimestamp(rs[1], sorted)
    ELSE LET first == SortLoop(FirstHalf(rs), sorted)
         IN  IF Evaluated(first) THEN SortLoop(SecondHalf(rs), first) ELSE first

\* arr.sort((a, b) => a.timestamp - b.timestamp): Array.prototype.sort is stable.
SortByTimestamp(s) == SortLoop(s, <<>>)

\* parser.parseStringPromise rejects malformed markup; result.feed.entry throws a
\* TypeError when the root element is not a feed.
ParseThrows(doc) == ~doc.wellFormed \/ ~doc.hasFeed

parseGreenButtonXML(doc) ==
    SortByTimestamp(Flatten(MapSeq(doc.entries, EntryReadings)))

-----------------------------------------------------------------------------
(* Reading Merger: mergeReadings *)

Timestamps(s) == { s[i].timestamp : i \in DOMAIN s }

\* Variants of the merger with a plausible slip, used to test the properties below.
uniqueSecondaryKeepsPrimaryOnly(primary, secondary) ==
    SelectSeq(secondary, LAMBDA r : r.timestamp \in Timestamps(primary))

uniqueSecondary(primary, secondary) ==
    SelectSeq(secondary, LAMBDA r : r.timestamp \notin Timestamps(primary))

mergeReadingsUnsorted(primary, secondary) ==
    primary \o SelectSeq(secondary, LAMBDA r : r.timestamp \notin Timestamps(primary))

\* Variant that also keeps one reading per timestamp of the primary, used to
\* test the properties below.
mergeReadingsOnePerTimestamp(primary, secondary) ==
    SortByTimestamp(
        SelectSeq(primary \o uniqueSecondary(primary, secondary),
                  LAMBDA r : r = (CHOOSE q \in Range(primary \o secondary) :
                                    /\ q.timestamp = r.timestamp
                                    /\ \A x \in Range(primary \o secondary) :
                                          x.timestamp = r.timestamp
                                          => q.consumption >= x.consumption)))

mergeReadings(primary, secondary) ==
    SortByTimestamp(primary \o uniqueSecondary(primary, secondary))

-----------------------------------------------------------------------------
(* TOU Classifier: groupByTOU *)

\* Variant of the switch without its default branch, used to test the properties below.
PushByTOUWithoutDefault(groups, reading) ==
    CASE reading.tou = 1 -> [groups EXCEPT !.onPeak = Append(@, reading)]
      [] reading.tou = 2 -> [groups EXCEPT !.midPeak = Append(@, reading)]
      [] reading.tou = 3 -> [groups EXCEPT !.offPeak = Append(@, reading)]
      [] OTHER           -> groups

\* One iteration of the loop: the switch on reading.tou.
PushByTOU(groups, reading) ==
    CASE reading.tou = 1 -> [groups EXCEPT !.onPeak = Append(@, reading)]
      [] reading.tou = 2 -> [groups EXCEPT !.midPeak = Append(@, reading)]
      [] OTHER           -> [groups EXCEPT !.offPeak = Append(@, reading)]

RECURSIVE GroupLoop(_, _)
GroupLoop(rs, groups) ==
    IF rs = <<>> THEN groups
    ELSE IF Len(rs) = 1 THEN PushByTOU(groups, rs[1])
    ELSE LET first == GroupLoop(FirstHalf(rs), groups)
         IN  IF Evaluated(first) THEN GroupLoop(SecondHalf(rs), first) ELSE first

groupByTOU(rs) == GroupLoop(rs, [onPeak |-> <<>>, midPeak |-> <<>>, offPeak |-> <<>>])

-----------------------------------------------------------------------------
(* Daily Aggregator: aggregateToDaily *)

\* UTC offset of America/Toronto at instant ts.  The model's timestamps lie between
\* 2023-03-12 and 2024-03-10: daylight time (UTC-4) until 2023-11-05T06:00:00Z,
\* standard time (UTC-5) from then on.
DstEnd == 19666 * SecondsPerDay + 6 * SecondsPerHour

TorontoOffset(ts) == IF ts < DstEnd THEN -4 * SecondsPerHour ELSE -5 * SecondsPerHour

\* date.toLocaleString('en-US', {timeZone: 'America/Toronto'}): the wall clock of
\* Toronto at ts, given as the instant that shows this wall clock in UTC.
TorontoWallClock(ts) == ts + TorontoOffset(ts)

\* new Date(string): a date-time string without zone is read as local time of the
\* machine, whose zone has offset tz; the result is the instant meant.
ParseAsLocal(wall, tz) == wall - tz

\* d.toISOString().split('T')[0]: the UTC calendar date of an instant.  A date
\* 'YYYY-MM-DD' is represented by its day number since 1970-01-01.
ISODate(instant) == instant \div SecondsPerDay

dateKey(ts, tz) == ISODate(ParseAsLocal(TorontoWallClock(ts), tz))

\* Variant of the loop body that counts a reading only when it opens a new date,
\* used to test the properties below.
DailyAddFirstOnly(dailyMap, reading, tz) ==
    LET key == dateKey(reading.timestamp, tz)
    IN  IF \E i \in DOMAIN dailyMap : dailyMap[i].date = key
        THEN dailyMap
        ELSE Append(dailyMap, [date |-> key, consumption |-> reading.consumption,
                               cost |-> reading.cost])

\* dailyMap is an insertion-ordered Map: a sequence of its values.
\* One iteration of the loop:
DailyAdd(dailyMap, reading, tz) ==
    LET key == dateKey(reading.timestamp, tz)
        withKey == IF \E i \in DOMAIN dailyMap : dailyMap[i].date = key
                   THEN dailyMap
                   ELSE Append(dailyMap, [date |-> key, consumption |-> 0, cost |-> 0])
        k == CHOOSE i \in DOMAIN withKey : withKey[i].date = key
    IN  [withKey EXCEPT ![k].consumption = @ + reading.consumption,
                        ![k].cost = @ + reading.cost]

RECURSIVE DailyLoop(_, _, _)
DailyLoop(rs, dailyMap, tz) ==
    IF rs = <<>> THEN dailyMap
    ELSE IF Len(rs) = 1 THEN DailyAdd(dailyMap, rs[1], tz)
    ELSE LET first == DailyLoop(FirstHalf(rs), dailyMap, tz)
         IN  IF Evaluated(first) THEN DailyLoop(SecondHalf(rs), first, tz) ELSE first

RECURSIVE InsertByDate(_, _)
InsertByDate(d, s) ==
    IF s = <<>> THEN <<d>>
    ELSE IF s[Len(s)].date <= d.date THEN Append(s, d)
    ELSE Append(InsertByDate(d, SubSeq(s, 1, Len(s) - 1)), s[Len(s)])

RECURSIVE SortByDateLoop(_, _)
SortByDateLoop(ds, sorted) ==
    IF ds = <<>> THEN sorted
    ELSE IF Len(ds) = 1 THEN InsertByDate(ds[1], sorted)
    ELSE LET first == SortByDateLoop(FirstHalf(ds), sorted)
         IN  IF Evaluated(first) THEN SortByDateLoop(SecondHalf(ds), first) ELSE first

\* dailyArray.sort((a, b) => a.date.localeCompare(b.date))
SortByDate(s) == SortByDateLoop(s, <<>>)

\* Date.UTC(year, month - 1, day, 5, 0, 0) / 1000
DailyTimestamp(date) == date * SecondsPerDay + dailyHourUTC * SecondsPerHour

DailyRecord(d) ==
    [ timestamp   |-> DailyTimestamp(d.date),
      consumption |-> d.consumption,
      cost        |-> d.cost,
      date        |-> d.date ]

aggregateToDaily(rs, tz) == MapSeq(SortByDate(DailyLoop(rs, <<>>, tz)), DailyRecord)

-----------------------------------------------------------------------------
(* Statement Generator: generateMetaSQL, generateStatisticSQL *)

Comment(text) == [kind |-> "comment", text |-> text]

MetaStatement(id, name, unit) ==
    [kind |-> "meta", id |-> id, source |-> Prefix, unit |-> unit,
     has_mean |-> 0, has_sum |-> 1, name |-> name]

metas ==
    << MetaStatement(statisticIds.onPeak, "HydroOne On-Peak", "kWh"),
       MetaStatement(statisticIds.midPeak, "HydroOne Mid-Peak", "kWh"),
       MetaStatement(statisticIds.offPeak, "HydroOne Off-Peak", "kWh"),
       MetaStatement(statisticIds.onPeakCost, "HydroOne On-Peak Cost", "CAD"),
       MetaStatement(statisticIds.midPeakCost, "HydroOne Mid-Peak Cost", "CAD"),
       MetaStatement(statisticIds.offPeakCost, "HydroOne Off-Peak Cost", "CAD"),
       MetaStatement(statisticIds.dailyUsage, "HydroOne Daily Usage", "kWh"),
       MetaStatement(statisticIds.dailyCost, "HydroOne Daily Cost", "CAD") >>

generateMetaSQL ==
    << Comment("Statistics Metadata"),
       Comment("Run these INSERT statements first. If records already exist, they will be ignored.") >>
    \o metas

\* Math.round(x * 1000000) / 1000000 on an amount counted in units of 1/Resolution.
Round6(x) ==
    LET ratio == Resolution \div roundFactor
    IN  ((2 * x + ratio) \div (2 * ratio)) * ratio

\* let cumulativeSum = 0
InitialSum == 0

\* Variant that assigns instead of adding, used to test the properties below.
AccumulateAssigns(cumulativeSum, value) == value

\* cumulativeSum += value
Accumulate(cumulativeSum, value) == cumulativeSum + value

\* const createdTs = typeof reading.created_ts === 'number' ? reading.created_ts
\*   : (typeof reading.createdTs === 'number' ? reading.createdTs : startTs)
\* in the single-file script; merge-greenbutton.js has const createdTs = startTs,
\* the last branch, and its readings carry neither field.
createdTs(reading) ==
    IF "created_ts" \in DOMAIN reading THEN reading.created_ts
    ELSE IF "createdTs" \in DOMAIN reading THEN reading.createdTs
    ELSE reading.timestamp

\* The tuple pushed to values for one reading, given the updated cumulativeSum.
ValueRow(reading, value, cumulativeSum) ==
    [ created_ts |-> createdTs(reading),
      start_ts   |-> reading.timestamp,
      state      |-> Round6(value),
      sum        |-> Round6(cumulativeSum) ]

\* One iteration of the loop, on the pair of cumulativeSum and values.
ValuesStep(loop, reading, valueField) ==
    LET value == reading[valueField]
        newSum == Accumulate(loop.cumulativeSum, value)
    IN  [ cumulativeSum |-> newSum,
          values        |-> Append(loop.values, ValueRow(reading, value, newSum)) ]

RECURSIVE ValuesLoop(_, _, _)
ValuesLoop(rs, valueField, loop) ==
    IF rs = <<>> THEN loop
    ELSE IF Len(rs) = 1 THEN ValuesStep(loop, rs[1], valueField)
    ELSE LET first == ValuesLoop(FirstHalf(rs), valueField, loop)
         IN  IF Evaluated(first) THEN ValuesLoop(SecondHalf(rs), valueField, first) ELSE first

InsertStatement(id, rows) == [kind |-> "insert", id |-> id, rows |-> rows]

\* Variant of the batching that emits full batches only, used to test the
\* properties below.
RECURSIVE BatchesWithoutRemainder(_, _)
BatchesWithoutRemainder(values, size) ==
    IF Len(values) < size THEN <<>>
    ELSE <<SubSeq(values, 1, size)>>
         \o BatchesWithoutRemainder(SubSeq(values, size + 1, Len(values)), size)

\* for (let i = 0; i < values.length; i += size) values.slice(i, i + size)
RECURSIVE Batches(_, _)
Batches(values, size) ==
    IF values = <<>> THEN <<>>
    ELSE IF Len(values) <= size THEN <<values>>
    ELSE <<SubSeq(values, 1, size)>> \o Batches(SubSeq(values, size + 1, Len(values)), size)

\* The header of a series: -- ${statisticId}
SeriesComment(statisticId) == [kind |-> "comment", text |-> "series", id |-> statisticId]

generateStatisticSQL(statisticId, rs, valueField) ==
    IF Len(rs) = 0 THEN <<>>
    ELSE << SeriesComment(statisticId), Comment("records") >>
         \o MapSeq(Batches(ValuesLoop(rs, valueField,
                                     [cumulativeSum |-> InitialSum, values |-> <<>>]).values,
                          batchSize),
                   LAMBDA rows : InsertStatement(statisticId, rows))

-----------------------------------------------------------------------------
(* Pipeline Orchestrator: the artifact assembled by main() *)

\* LIKE 'hydroone:%' as a delete statement of the artifact.
DeleteStatement(table) == [kind |-> "delete", table |-> table, like |-> Prefix]

headerLines(pl) ==
    IF pl = "merge"
    THEN << Comment("Green Button to Home Assistant Statistics Import (MERGED)"),
            Comment("Generated"), Comment("Primary source"), Comment("Secondary source"),
            Comment("Date range"), Comment("Total hourly readings"),
            Comment("Total daily records") >>
    ELSE << Comment("Green Button to Home Assistant Statistics Import"),
            Comment("Generated"), Comment("Source"), Comment("Date range"),
            Comment("Total hourly readings"), Comment("Total daily records") >>

\* Variant that emits the delete statements behind the note of the default mode
\* too, used to test the properties below.
modeLinesAlwaysDelete(clear) ==
    IF clear
    THEN << Comment("CLEARING EXISTING DATA"),
            DeleteStatement("statistics"), DeleteStatement("statistics_short_term") >>
    ELSE << Comment("NOTE: Using INSERT IGNORE to skip duplicate records."),
            DeleteStatement("statistics"), DeleteStatement("statistics_short_term") >>

\* if (clearExisting) { ... } else { ... }
modeLines(clear) ==
    IF clear
    THEN << Comment("=========="), Comment("CLEARING EXISTING DATA"), Comment("=========="),
            DeleteStatement("statistics"),
            DeleteStatement("statistics_short_term") >>
    ELSE << Comment("NOTE: Using INSERT IGNORE to skip duplicate records."),
            Comment("To clear existing data first, run with --clear flag or execute:"),
            Comment("DELETE FROM statistics WHERE metadata_id IN (SELECT id FROM statistics_meta WHERE statistic_id LIKE 'hydroone:%');"),
            Comment("DELETE FROM statistics_short_term WHERE metadata_id IN (SELECT id FROM statistics_meta WHERE statistic_id LIKE 'hydroone:%');") >>

\* Variant that takes the mid-peak cost rows from the on-peak readings, used to
\* test the properties below.
hourlyLinesCostOfOnPeak(groups) ==
    << Comment("=========="), Comment("HOURLY TOU STATISTICS"), Comment("==========") >>
    \o generateStatisticSQL(statisticIds.onPeak, groups.onPeak, "consumption")
    \o generateStatisticSQL(statisticIds.midPeak, groups.midPeak, "consumption")
    \o generateStatisticSQL(statisticIds.offPeak, groups.offPeak, "consumption")
    \o generateStatisticSQL(statisticIds.onPeakCost, groups.onPeak, "cost")
    \o generateStatisticSQL(statisticIds.midPeakCost, groups.onPeak, "cost")
    \o generateStatisticSQL(statisticIds.offPeakCost, groups.offPeak, "cost")

hourlyLines(groups) ==
    << Comment("=========="), Comment("HOURLY TOU STATISTICS"), Comment("==========") >>
    \o generateStatisticSQL(statisticIds.onPeak, groups.onPeak, "consumption")
    \o generateStatisticSQL(statisticIds.midPeak, groups.midPeak, "consumption")
    \o generateStatisticSQL(statisticIds.offPeak, groups.offPeak, "consumption")
    \o generateStatisticSQL(statisticIds.onPeakCost, groups.onPeak, "cost")
    \o generateStatisticSQL(statisticIds.midPeakCost, groups.midPeak, "cost")
    \o generateStatisticSQL(statisticIds.offPeakCost, groups.offPeak, "cost")

dailyLines(daily) ==
    << Comment("=========="), Comment("DAILY AGGREGATE STATISTICS"), Comment("==========") >>
    \o generateStatisticSQL(statisticIds.dailyUsage, daily, "consumption")
    \o generateStatisticSQL(statisticIds.dailyCost, daily, "cost")

\* Variant that registers the series behind their rows, used to test the
\* properties below.
buildArtifactMetaLast(pl, clear, groups, daily) ==
    headerLines(pl) \o modeLines(clear)
    \o hourlyLines(groups) \o dailyLines(daily) \o generateMetaSQL

buildArtifact(pl, clear, groups, daily) ==
    headerLines(pl) \o modeLines(clear) \o generateMetaSQL
    \o hourlyLines(groups) \o dailyLines(daily)

-----------------------------------------------------------------------------
(* Destination: the statements of the artifact executed by the SQL server *)

\* Variant of the pattern that matches every id, used to test the properties below.
LikeEverything(statistic_id, prefix) == Len(statistic_id) >= 1

\* statistic_id LIKE 'hydroone:%': the id has the prefix and a colon behind it.
Like(statistic_id, prefix) == Len(statistic_id) >= 2 /\ statistic_id[1] = prefix

\* SELECT id FROM statistics_meta WHERE statistic_id LIKE '<prefix>:%'
LikeIds(d, prefix) == { m.id : m \in { x \in d.meta : Like(x.statistic_id, prefix) } }

\* DELETE FROM <table> WHERE metadata_id IN (SELECT ... LIKE 'hydroone:%')
ExecDelete(d, st) ==
    LET keep(rows) == { r \in rows : r.metadata_id \notin LikeIds(d, st.like) }
    IN  IF st.table = "statistics"
        THEN [d EXCEPT !.statistics = keep(@)]
        ELSE [d EXCEPT !.short_term = keep(@)]

NextId(d) ==
    IF d.meta = {} THEN 1
    ELSE 1 + (CHOOSE i \in { m.id : m \in d.meta } : \A m \in d.meta : m.id <= i)

\* INSERT IGNORE INTO statistics_meta: statistic_id is a unique key.
ExecMeta(d, st) ==
    IF \E m \in d.meta : m.statistic_id = st.id THEN d
    ELSE [d EXCEPT !.meta = @ \cup { [id |-> NextId(d), statistic_id |-> st.id] }]

\* (SELECT id FROM statistics_meta WHERE statistic_id = '<id>'); 0 stands for NULL.
MetaIdOf(d, statistic_id) ==
    IF \E m \in d.meta : m.statistic_id = statistic_id
    THEN (CHOOSE m \in d.meta : m.statistic_id = statistic_id).id
    ELSE 0

\* Variant that overwrites a colliding row (REPLACE INTO), used to test the
\* properties below.
InsertReplace(rows, row) ==
    { r \in rows : ~(r.metadata_id = row.metadata_id /\ r.start_ts = row.start_ts) }
    \cup {row}

\* One row of INSERT IGNORE INTO statistics: (metadata_id, start_ts) is a unique key,
\* a colliding row is skipped, a NULL key collides with nothing.
InsertIgnore(rows, row) ==
    IF row.metadata_id # 0
       /\ \E r \in rows : r.metadata_id = row.metadata_id /\ r.start_ts = row.start_ts
    THEN rows
    ELSE rows \cup {row}

RECURSIVE InsertRows(_, _, _)
InsertRows(rows, mid, values) ==
    IF values = <<>> THEN rows
    ELSE InsertRows(InsertIgnore(rows, [metadata_id |-> mid,
                                        created_ts  |-> values[1].created_ts,
                                        start_ts    |-> values[1].start_ts,
                                        state       |-> values[1].state,
                                        sum         |-> values[1].sum]),
                    mid, Tail(values))

ExecInsert(d, st) ==
    [d EXCEPT !.statistics = InsertRows(@, MetaIdOf(d, st.id), st.rows)]

ExecStatement(d, st) ==
    CASE st.kind = "delete" -> ExecDelete(d, st)
      [] st.kind = "meta"   -> ExecMeta(d, st)
      [] st.kind = "insert" -> ExecInsert(d, st)
      [] OTHER              -> d

RECURSIVE ExecArtifact(_, _)
ExecArtifact(d, artifact) ==
    IF artifact = <<>> THEN d
    ELSE ExecArtifact(ExecStatement(d, artifact[1]), Tail(artifact))

-----------------------------------------------------------------------------
(* main(): one action per step *)

Fail == /\ pc' = "failed"
        /\ exitCode' = 1

\* if (!fs.existsSync(inputPath)) / if (!fs.existsSync(primaryPath))
CheckPrimaryExists ==
    /\ pc = "start"
    /\ IF ~primaryExists THEN Fail
       ELSE /\ pc' = IF pipeline = "merge" THEN "checkSecondary" ELSE "parsePrimary"
            /\ UNCHANGED exitCode
    /\ UNCHANGED <<inputs, primaryReadings, secondaryReadings, readings, touGroups,
                   dailyReadings, sql, outputFile, db, executions>>

\* Variant of main() without the check of the secondary path, used to test the
\* properties below.
CheckSecondarySkipped ==
    /\ pc = "checkSecondary"
    /\ pc' = "parsePrimary"
    /\ UNCHANGED <<inputs, primaryReadings, secondaryReadings, readings, touGroups,
                   dailyReadings, sql, outputFile, exitCode, db, executions>>

\* if (!fs.existsSync(secondaryPath))
CheckSecondaryExists ==
    /\ pc = "checkSecondary"
    /\ IF ~secondaryExists THEN Fail
       ELSE /\ pc' = "parsePrimary"
            /\ UNCHANGED exitCode
    /\ UNCHANGED <<inputs, primaryReadings, secondaryReadings, readings, touGroups,
                   dailyReadings, sql, outputFile, db, executions>>

\* const readings = await parseGreenButtonXML(inputPath)
\* const primaryReadings = await parseGreenButtonXML(primaryPath)
ParsePrimary ==
    /\ pc = "parsePrimary"
    /\ IF ParseThrows(primaryDoc)
       THEN Fail /\ UNCHANGED <<primaryReadings, readings>>
       ELSE /\ primaryReadings' = parseGreenButtonXML(primaryDoc)
            /\ readings' = IF pipeline = "merge" THEN readings
                           ELSE parseGreenButtonXML(primaryDoc)
            /\ pc' = IF pipeline = "merge" THEN "parseSecondary" ELSE "checkEmpty"
            /\ UNCHANGED exitCode
    /\ UNCHANGED <<inputs, secondaryReadings, touGroups, dailyReadings, sql,
                   outputFile, db, executions>>

\* const secondaryReadings = await parseGreenButtonXML(secondaryPath)
ParseSecondary ==
    /\ pc = "parseSecondary"
    /\ IF ParseThrows(secondaryDoc)
       THEN Fail /\ UNCHANGED secondaryReadings
       ELSE /\ secondaryReadings' = parseGreenButtonXML(secondaryDoc)
            /\ pc' = "merge"
            /\ UNCHANGED exitCode
    /\ UNCHANGED <<inputs, primaryReadings, readings, touGroups, dailyReadings, sql,
                   outputFile, db, executions>>

\* const mergedReadings = mergeReadings(primaryReadings, secondaryReadings)
Merge ==
    /\ pc = "merge"
    /\ readings' = mergeReadings(primaryReadings, secondaryReadings)
    /\ pc' = "checkEmpty"
    /\ UNCHANGED <<inputs, primaryReadings, secondaryReadings, touGroups,
                   dailyReadings, sql, outputFile, exitCode, db, executions>>

\* Variant of the check that lets an empty sequence through, used to test the
\* properties below.
CheckEmptyContinues ==
    /\ pc = "checkEmpty"
    /\ pc' = "group"
    /\ UNCHANGED <<inputs, primaryReadings, secondaryReadings, readings, touGroups,
                   dailyReadings, sql, outputFile, exitCode, db, executions>>

\* if (readings.length === 0) { ...; process.exit(1) }
CheckEmpty ==
    /\ pc = "checkEmpty"
    /\ IF Len(readings) = 0 THEN Fail
       ELSE pc' = "group" /\ UNCHANGED exitCode
    /\ UNCHANGED <<inputs, primaryReadings, secondaryReadings, readings, touGroups,
                   dailyReadings, sql, outputFile, db, executions>>

\* const touGroups = groupByTOU(readings)
Group ==
    /\ pc = "group"
    /\ touGroups' = groupByTOU(readings)
    /\ pc' = "aggregate"
    /\ UNCHANGED <<inputs, primaryReadings, secondaryReadings, readings,
                   dailyReadings, sql, outputFile, exitCode, db, executions>>

\* const dailyReadings = aggregateToDaily(readings)
Aggregate ==
    /\ pc = "aggregate"
    /\ dailyReadings' = aggregateToDaily(readings, tzOffset)
    /\ pc' = "generate"
    /\ UNCHANGED <<inputs, primaryReadings, secondaryReadings, readings, touGroups,
                   sql, outputFile, exitCode, db, executions>>

\* let sql = ...; sql += ...
Generate ==
    /\ pc = "generate"
    /\ sql' = buildArtifact(pipeline, clearExisting, touGroups, dailyReadings)
    /\ pc' = "write"
    /\ UNCHANGED <<inputs, primaryReadings, secondaryReadings, readings, touGroups,
                   dailyReadings, outputFile, exitCode, db, executions>>

\* Variant of the write that is carried out twice, used to test the properties below.
WriteTwice ==
    /\ pc = "write"
    /\ outputFile' = Append(outputFile, sql)
    /\ pc' = IF outputFile = <<>> THEN "write" ELSE "done"
    /\ exitCode' = IF outputFile = <<>> THEN exitCode ELSE 0
    /\ UNCHANGED <<inputs, primaryReadings, secondaryReadings, readings, touGroups,
                   dailyReadings, sql, db, executions>>

\* fs.writeFileSync(outputPath, sql); main() returns and node exits with code 0
Write ==
    /\ pc = "write"
    /\ outputFile' = Append(outputFile, sql)
    /\ pc' = "done"
    /\ exitCode' = 0
    /\ UNCHANGED <<inputs, primaryReadings, secondaryReadings, readings, touGroups,
                   dailyReadings, sql, db, executions>>

MaxExecutions == 2

\* The user runs the written artifact against the destination (mysql < backfill.sql).
Execute ==
    /\ pc = "done"
    /\ executions < MaxExecutions
    /\ db' = ExecArtifact(db, outputFile[Len(outputFile)])
    /\ executions' = executions + 1
    /\ UNCHANGED <<inputs, pc, primaryReadings, secondaryReadings, readings, touGroups,
                   dailyReadings, sql, outputFile, exitCode>>

-----------------------------------------------------------------------------
(* Inputs: documents, machine zones, destinations *)

\* <IntervalReading> with its timePeriod; value, cost and tou are optional children.
IR(start, duration, value, cost, tou) ==
    [start |-> start, duration |-> duration, value |-> value, cost |-> cost, tou |-> tou]

\* A feed of one entry whose content holds one IntervalBlock with the readings irs.
OneBlockDoc(irs) ==
    [wellFormed |-> TRUE, hasFeed |-> TRUE,
     entries |-> << [hasContent |-> TRUE, blocks |-> <<irs>>] >>]

EmptyFeedDoc == [wellFormed |-> TRUE, hasFeed |-> TRUE, entries |-> <<>>]
NoFeedDoc == [wellFormed |-> TRUE, hasFeed |-> FALSE, entries |-> <<>>]
MalformedDoc == [wellFormed |-> FALSE, hasFeed |-> FALSE, entries |-> <<>>]

\* 2023-11-14T22:13:20Z, the first reading of the specification's scenario.
ScenarioStart == 1700 * 1000000

\* 2023-11-05T00:00:00Z: the day daylight time ends in Toronto.
FallBackDay == 19666 * SecondsPerDay

\* Zones of the machine: Toronto's own standard offset, UTC, Central Europe.
TzOffsets == { -5 * SecondsPerHour, 0, SecondsPerHour }

NoDb == [meta |-> {}, statistics |-> {}, short_term |-> {}]

Row(mid, ts, state, sum) ==
    [metadata_id |-> mid, created_ts |-> ts, start_ts |-> ts, state |-> state, sum |-> sum]

\* A destination already holding a sensor of Home Assistant, two series of the
\* catalogue and a series 'hydroone:total' that another writer registered.
UsedDb ==
    [ meta |-> { [id |-> 1, statistic_id |-> <<"sensor.energy">>],
                 [id |-> 2, statistic_id |-> statisticIds.onPeak],
                 [id |-> 3, statistic_id |-> <<Prefix, "total">>],
                 [id |-> 4, statistic_id |-> statisticIds.dailyUsage] },
      statistics |-> { Row(1, ScenarioStart, 70000000, 70000000),
                       Row(2, ScenarioStart, 1000000, 9000000),
                       Row(2, ScenarioStart - SecondsPerHour, 8000000, 8000000),
                       Row(3, ScenarioStart, 2000000, 2000000),
                       Row(4, 19675 * SecondsPerDay + dailyHourUTC * SecondsPerHour,
                           3000000, 3000000) },
      short_term |-> { Row(1, ScenarioStart, 70000000, 70000000),
                       Row(2, ScenarioStart, 1000000, 9000000),
                       Row(3, ScenarioStart, 2000000, 2000000) } ]

InitialDbs == { NoDb, UsedDb }

noGroups == [onPeak |-> <<>>, midPeak |-> <<>>, offPeak |-> <<>>]

\* Everything main() has not computed yet.
InitRun ==
    /\ primaryReadings = <<>>
    /\ secondaryReadings = <<>>
    /\ readings = <<>>
    /\ touGroups = noGroups
    /\ dailyReadings = <<>>
    /\ sql = <<>>
    /\ outputFile = <<>>
    /\ exitCode = -1
    /\ executions = 0

-----------------------------------------------------------------------------
(* Spec: both pipelines from the command line to the executed artifact *)

MaxDocLen == 2

\* The two readings of the specification's scenario, a reading of the evening in
\* Toronto (2023-11-15T01:13:20Z), a second reading at the first start with other
\* amounts and no tou, a half-hour reading and a placeholder without value and cost.
MainReadings ==
    { IR(ScenarioStart, hourlyDuration, <<500000>>, <<10000>>, <<1>>),
      IR(ScenarioStart + SecondsPerHour, hourlyDuration, <<300000>>, <<6000>>, <<3>>),
      IR(ScenarioStart + 3 * SecondsPerHour, hourlyDuration, <<200000>>, <<4000>>, <<2>>),
      IR(ScenarioStart, hourlyDuration, <<400000>>, <<8000>>, <<>>) }

SkippedReadings ==
    { IR(ScenarioStart + SecondsPerHour, 1800, <<100000>>, <<2000>>, <<2>>),
      IR(ScenarioStart + 2 * SecondsPerHour, hourlyDuration, <<>>, <<>>, <<>>) }

PrimaryDocs ==
    { OneBlockDoc(irs) : irs \in SeqsUpTo(MainReadings, MaxDocLen) }
    \cup { OneBlockDoc(<<ir>>) : ir \in SkippedReadings }
    \cup { EmptyFeedDoc, NoFeedDoc, MalformedDoc }

SecondaryDocs ==
    { OneBlockDoc(<<ir>>) : ir \in MainReadings } \cup { EmptyFeedDoc, MalformedDoc }

Init ==
    /\ pipeline \in {"single", "merge"}
    /\ clearExisting \in BOOLEAN
    /\ tzOffset \in {0, -5 * SecondsPerHour}
    /\ primaryExists \in BOOLEAN
    /\ primaryDoc \in IF primaryExists THEN PrimaryDocs ELSE {EmptyFeedDoc}
    /\ secondaryExists \in IF pipeline = "merge" THEN BOOLEAN ELSE {FALSE}
    /\ secondaryDoc \in IF secondaryExists THEN SecondaryDocs ELSE {EmptyFeedDoc}
    /\ db \in InitialDbs
    /\ pc = "start"
    /\ InitRun

Next ==
    \/ CheckPrimaryExists
    \/ CheckSecondaryExists
    \/ ParsePrimary
    \/ ParseSecondary
    \/ Merge
    \/ CheckEmpty
    \/ Group
    \/ Aggregate
    \/ Generate
    \/ Write
    \/ Execute

Spec == Init /\ [][Next]_vars

-----------------------------------------------------------------------------
(* SpecMerge: the merge pipeline from its two parses to mergeReadings *)

MaxMergeLen == 2

MergeReadings ==
    { IR(ScenarioStart + h * SecondsPerHour, hourlyDuration, <<v>>, <<v \div 50>>, <<1>>) :
        h \in {0, 1, 2}, v \in {500000, 300000} }

MergeDocs == { OneBlockDoc(irs) : irs \in SeqsUpTo(MergeReadings, MaxMergeLen) }

InitMerge ==
    /\ pipeline = "merge"
    /\ clearExisting = FALSE
    /\ tzOffset = 0
    /\ primaryExists = TRUE
    /\ secondaryExists = TRUE
    /\ primaryDoc \in MergeDocs
    /\ secondaryDoc \in MergeDocs
    /\ db = NoDb
    /\ pc = "parsePrimary"
    /\ InitRun

NextMerge == ParsePrimary \/ ParseSecondary \/ Merge

SpecMerge == InitMerge /\ [][NextMerge]_vars

-----------------------------------------------------------------------------
(* Properties of the Reading Merger (SpecMerge) *)

\* mergeReadings has returned: readings holds mergedReadings.
Merged == pipeline = "merge" /\ pc = "checkEmpty"

SortedByTimestamp(s) ==
    \A i, j \in DOMAIN s : i < j => s[i].timestamp <= s[j].timestamp

\* The secondary readings whose timestamp no primary reading has.
GapFillers == { i \in DOMAIN secondaryReadings :
                  secondaryReadings[i].timestamp \notin Timestamps(primaryReadings) }

\* C1: the result of mergeReadings is sorted ascending by timestamp and is, as a
\* multiset, every primary reading plus exactly the secondary readings whose
\* timestamp no primary reading has; its length is |primary| plus the number of
\* those secondary readings, and every timestamp of either input is in the result.
C1_MergeContract ==
    Merged =>
      /\ SortedByTimestamp(readings)
      /\ \A r \in Range(primaryReadings) \cup Range(secondaryReadings) \cup Range(readings) :
            Count(readings, r) =
              Count(primaryReadings, r)
              + Cardinality({ i \in GapFillers : secondaryReadings[i] = r })
      /\ Len(readings) = Len(primaryReadings) + Cardinality(GapFillers)
      /\ Timestamps(readings) = Timestamps(primaryReadings) \cup Timestamps(secondaryReadings)

\* A merge where the secondary fills a gap before a primary reading and also
\* collides with a primary reading.
C1_Witness ==
    /\ Merged
    /\ \E i \in GapFillers : \E k \in DOMAIN primaryReadings :
          secondaryReadings[i].timestamp < primaryReadings[k].timestamp
    /\ \E j \in DOMAIN secondaryReadings : j \notin GapFillers

\* C2: for every timestamp T that a primary and a secondary reading share with
\* different consumption or cost, the merged sequence holds exactly one reading
\* at T, and it is the primary's.
C2_MergePrecedence ==
    Merged =>
      \A p \in Range(primaryReadings), s \in Range(secondaryReadings) :
        (p.timestamp = s.timestamp /\ (p.consumption # s.consumption \/ p.cost # s.cost))
        => /\ Cardinality({ i \in DOMAIN readings : readings[i].timestamp = p.timestamp }) = 1
           /\ \A i \in DOMAIN readings : readings[i].timestamp = p.timestamp => readings[i] = p

\* C3: merging an extracted sequence with itself returns it unchanged.
C3_MergeIdempotent ==
    (Merged /\ secondaryReadings = primaryReadings) => readings = primaryReadings

\* A sequence merged with itself that holds two different readings at one timestamp.
C3_Witness ==
    /\ Merged
    /\ secondaryReadings = primaryReadings
    /\ Len(primaryReadings) = 2
    /\ primaryReadings[1].timestamp = primaryReadings[2].timestamp
    /\ primaryReadings[1] # primaryReadings[2]

-----------------------------------------------------------------------------
(* SpecClassify: the single-file pipeline up to groupByTOU, over all tou codes *)

MaxClassifyLen == 3

\* tou absent, the three codes of the mapping, and two codes outside it.
ClassifyReadings ==
    { IR(ScenarioStart + h * SecondsPerHour, hourlyDuration, <<500000>>, <<10000>>, tou) :
        h \in {0, 1}, tou \in { <<>>, <<0>>, <<1>>, <<2>>, <<3>>, <<4>> } }

InitClassify ==
    /\ pipeline = "single"
    /\ clearExisting = FALSE
    /\ tzOffset = 0
    /\ primaryExists = TRUE
    /\ secondaryExists = FALSE
    /\ primaryDoc \in { OneBlockDoc(irs) : irs \in SeqsUpTo(ClassifyReadings, MaxClassifyLen) }
    /\ secondaryDoc = EmptyFeedDoc
    /\ db = NoDb
    /\ pc = "parsePrimary"
    /\ InitRun

NextClassify == ParsePrimary \/ CheckEmpty \/ Group

SpecClassify == InitClassify /\ [][NextClassify]_vars

\* groupByTOU has returned.
Grouped == pc = "aggregate"

\* C10: onPeak is the subsequence of the readings with tou 1, midPeak the one with
\* tou 2, offPeak the one of all other readings; the partitions are disjoint and
\* their sizes sum to the number of readings.
C10_TouPartition ==
    Grouped =>
      /\ touGroups.onPeak = SelectSeq(readings, LAMBDA r : r.tou = 1)
      /\ touGroups.midPeak = SelectSeq(readings, LAMBDA r : r.tou = 2)
      /\ touGroups.offPeak = SelectSeq(readings, LAMBDA r : r.tou \notin {1, 2})
      /\ Range(touGroups.onPeak) \cap Range(touGroups.midPeak) = {}
      /\ Range(touGroups.onPeak) \cap Range(touGroups.offPeak) = {}
      /\ Range(touGroups.midPeak) \cap Range(touGroups.offPeak) = {}
      /\ Len(touGroups.onPeak) + Len(touGroups.midPeak) + Len(touGroups.offPeak)
           = Len(readings)

\* All three partitions are filled, offPeak by a reading with an unrecognized code.
C10_Witness ==
    /\ Grouped
    /\ touGroups.onPeak # <<>>
    /\ touGroups.midPeak # <<>>
    /\ \E i \in DOMAIN touGroups.offPeak : touGroups.offPeak[i].tou \notin {1, 2, 3}

-----------------------------------------------------------------------------
(* SpecDaily: the single-file pipeline up to aggregateToDaily, around the end of
   daylight time, on machines of several zones *)

MaxDailyLen == 3

\* 2023-11-04 23:00 EDT, the two 01:00 of 2023-11-05 (EDT, then EST),
\* 2023-11-05 20:00 EST and 2023-11-06 00:00 EST.
DailyHours == {3, 5, 6, 25, 29}

DailyInputReadings ==
    { IR(FallBackDay + h * SecondsPerHour, hourlyDuration, <<v>>, <<v \div 50>>, <<3>>) :
        h \in DailyHours, v \in {500000, 300000} }

InitDaily ==
    /\ pipeline = "single"
    /\ clearExisting = FALSE
    /\ tzOffset \in TzOffsets
    /\ primaryExists = TRUE
    /\ secondaryExists = FALSE
    /\ primaryDoc \in { OneBlockDoc(irs) : irs \in SeqsUpTo(DailyInputReadings, MaxDailyLen) }
    /\ secondaryDoc = EmptyFeedDoc
    /\ db = NoDb
    /\ pc = "parsePrimary"
    /\ InitRun

NextDaily == ParsePrimary \/ CheckEmpty \/ Group \/ Aggregate

SpecDaily == InitDaily /\ [][NextDaily]_vars

\* aggregateToDaily has returned.
Aggregated == pc = "generate"

\* The calendar date (day number) that instant ts has in America/Toronto.
TorontoDate(ts) == (ts + TorontoOffset(ts)) \div SecondsPerDay

\* C4: whatever the zone of the machine, every reading is assigned to the calendar
\* date its timestamp has in America/Toronto, and the DailyTotals are those dates.
C4_TorontoDateKey ==
    Aggregated =>
      /\ \A i \in DOMAIN readings :
            dateKey(readings[i].timestamp, tzOffset) = TorontoDate(readings[i].timestamp)
      /\ { dailyReadings[k].date : k \in DOMAIN dailyReadings }
           = { TorontoDate(readings[i].timestamp) : i \in DOMAIN readings }

\* The readings that aggregateToDaily put on date d.
ReadingsOn(d) ==
    SelectSeq(readings, LAMBDA r : dateKey(r.timestamp, tzOffset) = d)

\* C5: the DailyTotals sum to the readings, in consumption and in cost, and every
\* reading is counted in exactly one DailyTotal, the one of its date key.
C5_DailyConservation ==
    Aggregated =>
      /\ SumSeq(MapSeq(dailyReadings, LAMBDA d : d.consumption))
           = SumSeq(MapSeq(readings, LAMBDA r : r.consumption))
      /\ SumSeq(MapSeq(dailyReadings, LAMBDA d : d.cost))
           = SumSeq(MapSeq(readings, LAMBDA r : r.cost))
      /\ \A i \in DOMAIN readings :
            Cardinality({ k \in DOMAIN dailyReadings :
                            dailyReadings[k].date
                              = dateKey(readings[i].timestamp, tzOffset) }) = 1
      /\ \A k \in DOMAIN dailyReadings :
            /\ dailyReadings[k].consumption
                 = SumSeq(MapSeq(ReadingsOn(dailyReadings[k].date), LAMBDA r : r.consumption))
            /\ dailyReadings[k].cost
                 = SumSeq(MapSeq(ReadingsOn(dailyReadings[k].date), LAMBDA r : r.cost))

\* Two DailyTotals, one of them the sum of two readings with different timestamps.
C5_Witness ==
    /\ Aggregated
    /\ Len(dailyReadings) = 2
    /\ \E k \in DOMAIN dailyReadings :
          /\ Len(ReadingsOn(dailyReadings[k].date)) = 2
          /\ Cardinality(Timestamps(ReadingsOn(dailyReadings[k].date))) = 2

-----------------------------------------------------------------------------
(* SpecSeries: the single-file pipeline up to the generated artifact, over
   readings of two tiers, two amounts and two days *)

MaxSeriesLen == 3

SeriesInputReadings ==
    { IR(ScenarioStart + h * SecondsPerHour, hourlyDuration, <<v>>, <<v \div 50>>, tou) :
        h \in {0, 1, 24}, v \in {500000, 300000}, tou \in { <<1>>, <<>> } }

InitSeries ==
    /\ pipeline = "single"
    /\ clearExisting = FALSE
    /\ tzOffset = 0
    /\ primaryExists = TRUE
    /\ secondaryExists = FALSE
    /\ primaryDoc \in { OneBlockDoc(irs) : irs \in SeqsUpTo(SeriesInputReadings, MaxSeriesLen) }
    /\ secondaryDoc = EmptyFeedDoc
    /\ db = NoDb
    /\ pc = "parsePrimary"
    /\ InitRun

NextSeries == ParsePrimary \/ CheckEmpty \/ Group \/ Aggregate \/ Generate

SpecSeries == InitSeries /\ [][NextSeries]_vars

\* The 8 series of the catalogue.
CatalogueIds == { statisticIds[k] : k \in DOMAIN statisticIds }

\* The rows an artifact emits for one series, over all its insert statements, in order.
SeriesRows(artifact, id) ==
    Flatten(MapSeq(SelectSeq(artifact, LAMBDA st : st.kind = "insert" /\ st.id = id),
                   LAMBDA st : st.rows))

\* The artifact is complete.
Generated == pc \in {"write", "done"}

\* C6: in every series of the artifact the first row's sum is its own value and
\* every later row's sum is the sum of the row before plus its own value; no sum
\* carries anything over from the series generated before it.
C6_RunningSum ==
    Generated =>
      \A id \in CatalogueIds :
        LET rows == SeriesRows(sql, id)
        IN  \A i \in DOMAIN rows :
              rows[i].sum = (IF i = 1 THEN 0 ELSE rows[i - 1].sum) + rows[i].state

\* Series of three rows (off_peak, then off_peak_cost) and a daily series of two.
C6_Witness ==
    /\ Generated
    /\ Len(SeriesRows(sql, statisticIds.offPeak)) = 3
    /\ Len(SeriesRows(sql, statisticIds.offPeakCost)) = 3
    /\ SeriesRows(sql, statisticIds.offPeak)[3].sum # SeriesRows(sql, statisticIds.offPeak)[3].state
    /\ Len(SeriesRows(sql, statisticIds.dailyUsage)) = 2

-----------------------------------------------------------------------------
(* Properties of the artifact and of its execution (Spec) *)

\* A step that executes the written artifact against the destination.
ExecuteStep == pc = "done" /\ executions' = executions + 1

\* C7: executing a default-mode artifact changes and removes no row that the
\* destination already held, and executing it again leaves the destination as the
\* first execution left it.
C7_IdempotentRerun ==
    [][ (ExecuteStep /\ ~clearExisting) =>
          /\ db.statistics \subseteq db'.statistics
          /\ db'.short_term = db.short_term
          /\ db.meta \subseteq db'.meta
          /\ (executions >= 1 => db' = db) ]_vars

\* A default-mode artifact executed twice against the used destination: it emits an
\* on_peak row at a start the destination already held, the old row is still
\* there, and rows of the run were added.
C7_Witness ==
    /\ pc = "done" /\ ~clearExisting /\ executions = 2
    /\ Row(2, ScenarioStart, 1000000, 9000000) \in db.statistics
    /\ \E i \in DOMAIN SeriesRows(sql, statisticIds.onPeak) :
          SeriesRows(sql, statisticIds.onPeak)[i].start_ts = ScenarioStart
    /\ \E r \in db.statistics : r.metadata_id >= 5

\* The statistic_id that a row's metadata_id stands for (<<>> when none does).
SeriesOf(d, row) ==
    IF \E m \in d.meta : m.id = row.metadata_id
    THEN (CHOOSE m \in d.meta : m.id = row.metadata_id).statistic_id
    ELSE <<>>

\* An execution keeps every row whose series satisfies Kept(_).
KeepsRows(Kept(_)) ==
    /\ \A r \in db.statistics : Kept(SeriesOf(db, r)) => r \in db'.statistics
    /\ \A r \in db.short_term : Kept(SeriesOf(db, r)) => r \in db'.short_term

\* C8 as claimed: executing a clear-mode artifact removes rows of the 8 series
\* of the catalogue only; the rows of every other series stay.
C8_ClearOnlyCatalogue ==
    [][ (ExecuteStep /\ clearExisting) =>
          KeepsRows(LAMBDA id : id \notin CatalogueIds) ]_vars

\* C8 as the code has it: executing a clear-mode artifact removes rows only of
\* series whose statistic_id matches 'hydroone:%'; the rows of every series
\* without that prefix stay.
C8_ClearOnlyPrefix ==
    [][ (ExecuteStep /\ clearExisting) =>
          KeepsRows(LAMBDA id : ~(Len(id) >= 2 /\ id[1] = Prefix)) ]_vars

\* A clear-mode artifact executed against the used destination: the sensor's rows
\* are still there, the rows the destination held for hydroone series are gone.
C8_Witness ==
    /\ pc = "done" /\ clearExisting /\ executions >= 1
    /\ [id |-> 3, statistic_id |-> <<Prefix, "total">>] \in db.meta
    /\ Row(1, ScenarioStart, 70000000, 70000000) \in db.statistics
    /\ Row(1, ScenarioStart, 70000000, 70000000) \in db.short_term
    /\ Row(2, ScenarioStart - SecondsPerHour, 8000000, 8000000) \notin db.statistics
    /\ Row(3, ScenarioStart, 2000000, 2000000) \notin db.statistics

\* The statements of an artifact that the server executes.
Executable(artifact) == SelectSeq(artifact, LAMBDA st : st.kind # "comment")

\* C9: the mode never changes during a run; a clear-mode artifact begins with its
\* delete statements, one per table, each covering all 8 series, before every
\* metadata and insert statement; a default-mode artifact has no delete statement.
C9_ModeSelection ==
    /\ [][clearExisting' = clearExisting]_vars
    /\ [](Generated =>
            LET ex == Executable(sql)
                deletes == { i \in DOMAIN ex : ex[i].kind = "delete" }
            IN  IF clearExisting
                THEN /\ deletes = {1, 2}
                     /\ { ex[i].table : i \in deletes } = {"statistics", "statistics_short_term"}
                     /\ \A i \in deletes : \A id \in CatalogueIds : Like(id, ex[i].like)
                     /\ \E i \in DOMAIN ex : ex[i].kind = "meta"
                ELSE deletes = {})

\* A written clear-mode artifact with insert statements.
C9_Witness ==
    /\ pc = "done" /\ clearExisting
    /\ outputFile = <<sql>>
    /\ \E i \in DOMAIN sql : sql[i].kind = "insert"

-----------------------------------------------------------------------------
(* SpecExtract: the parse of one document of any shape, and the check behind it *)

MaxExtractLen == 2

\* Hourly readings (two of them at one start, one with a cost and no value, one
\* an hour earlier), a half-hour and a two-hour reading, and placeholders whose
\* value and cost are zero or absent.
ExtractReadings ==
    { IR(ScenarioStart, hourlyDuration, <<500000>>, <<10000>>, <<1>>),
      IR(ScenarioStart, hourlyDuration, <<300000>>, <<6000>>, <<>>),
      IR(ScenarioStart - SecondsPerHour, hourlyDuration, <<0>>, <<7000>>, <<2>>),
      IR(ScenarioStart - SecondsPerHour, hourlyDuration \div 2, <<100000>>, <<2000>>, <<2>>),
      IR(ScenarioStart, 2 * hourlyDuration, <<900000>>, <<18000>>, <<3>>),
      IR(ScenarioStart + SecondsPerHour, hourlyDuration, <<0>>, <<0>>, <<1>>),
      IR(ScenarioStart + SecondsPerHour, hourlyDuration, <<>>, <<>>, <<>>) }

\* An entry without content (the usage point, the meter reading, the reading type).
NoContentEntry == [hasContent |-> FALSE, blocks |-> <<>>]

\* An entry whose content holds the IntervalBlocks blocks (none: another content).
ContentEntry(blocks) == [hasContent |-> TRUE, blocks |-> blocks]

FeedDoc(entries) == [wellFormed |-> TRUE, hasFeed |-> TRUE, entries |-> entries]

\* The same two blocks as one entry, as two entries, behind and around entries
\* without content or without IntervalBlock; a block may hold no IntervalReading.
ExtractDocs ==
    UNION { { FeedDoc(<< ContentEntry(<<b1, b2>>) >>),
              FeedDoc(<< ContentEntry(<<b1>>), ContentEntry(<<b2>>) >>),
              FeedDoc(<< NoContentEntry, ContentEntry(<<b1>>), ContentEntry(<<>>),
                         ContentEntry(<<b2>>) >>) } :
            b1 \in SeqsUpTo(ExtractReadings, MaxExtractLen),
            b2 \in SeqsUpTo(ExtractReadings, 1) }
    \cup { EmptyFeedDoc, FeedDoc(<<NoContentEntry>>), NoFeedDoc, MalformedDoc }

InitExtract ==
    /\ pipeline = "single"
    /\ clearExisting = FALSE
    /\ tzOffset = 0
    /\ primaryExists = TRUE
    /\ secondaryExists = FALSE
    /\ primaryDoc \in ExtractDocs
    /\ secondaryDoc = EmptyFeedDoc
    /\ db = NoDb
    /\ pc = "parsePrimary"
    /\ InitRun

NextExtract == ParsePrimary \/ CheckEmpty

SpecExtract == InitExtract /\ [][NextExtract]_vars

\* parseGreenButtonXML has returned: readings holds what it returned.
Parsed == pipeline = "single" /\ pc = "checkEmpty"

\* Every IntervalReading of the document, in document order.
DocReadings(doc) ==
    Flatten([ i \in DOMAIN doc.entries |-> Flatten(doc.entries[i].blocks) ])

\* The interval readings the specification accepts: one hour, not value = cost = 0.
Qualifies(ir) ==
    /\ ir.duration = 3600
    /\ ~( (ir.value = <<>> \/ ir.value = <<0>>) /\ (ir.cost = <<>> \/ ir.cost = <<0>>) )

\* C11: parseGreenButtonXML returns one reading for each interval reading of the
\* document that lasts exactly 3600 seconds and whose raw value and raw cost are
\* not both zero, and none for any other; no returned reading has consumption
\* and cost both zero.
C11_ExtractFilter ==
    Parsed =>
      LET irs  == DocReadings(primaryDoc)
          kept == SelectSeq(irs, Qualifies)
      IN  /\ Len(readings) = Len(kept)
          /\ \A ir \in Range(irs) :
                Count(readings, MakeReading(ir)) =
                  IF Qualifies(ir) THEN Count(irs, ir) ELSE 0
          /\ \A r \in Range(readings) : ~(r.consumption = 0 /\ r.cost = 0)

\* A document of which the extractor keeps a reading with a cost and no
\* consumption and skips a half-hour reading and a placeholder.
C11_Witness ==
    /\ Parsed
    /\ \E r \in Range(readings) : r.consumption = 0 /\ r.cost # 0
    /\ \E ir \in Range(DocReadings(primaryDoc)) : ir.duration = hourlyDuration \div 2
    /\ \E ir \in Range(DocReadings(primaryDoc)) :
          ir.duration = hourlyDuration /\ ir.value = <<0>> /\ ir.cost = <<0>>

-----------------------------------------------------------------------------
(* Properties of main() (Spec): faults, order of the steps, the one write *)

\* The artifact holds at least one row to insert.
HasRows(artifact) ==
    \E i \in DOMAIN artifact : artifact[i].kind = "insert" /\ artifact[i].rows # <<>>

\* C12: when the document parses (in the merge pipeline: both do) and the
\* sequence of readings, extracted or merged, is empty, the next step of the run
\* is the fatal exit with a non-zero code, and nothing is written; every
\* artifact that is written comes from at least one reading and holds rows.
C12_EmptyResultIsFatal ==
    /\ [][ (pc = "checkEmpty" /\ Len(readings) = 0)
           => (pc' = "failed" /\ exitCode' = 1 /\ outputFile' = <<>>) ]_vars
    /\ [](pc = "failed" => exitCode = 1 /\ outputFile = <<>>)
    /\ [](\A i \in DOMAIN outputFile : Len(readings) > 0 /\ HasRows(outputFile[i]))

\* A merge run that found and parsed both documents, the primary holding nothing
\* but a placeholder reading, and ended in the fatal exit.
C12_Witness ==
    /\ pipeline = "merge"
    /\ primaryExists /\ secondaryExists
    /\ ~ParseThrows(primaryDoc) /\ ~ParseThrows(secondaryDoc)
    /\ DocReadings(primaryDoc) # <<>>
    /\ readings = <<>>
    /\ pc = "failed"
    /\ exitCode = 1
    /\ outputFile = <<>>

\* C13: the output path is written at most once, in the step behind the
\* generation, and what is written is the artifact generated from the classified
\* and aggregated readings of this run; a run that ended in the fatal exit has
\* written nothing; behind the write the run has ended with code 0 and no step
\* of it follows.
C13_AllOrNothing ==
    /\ [][ outputFile' # outputFile
           => /\ pc = "write" /\ pc' = "done"
              /\ outputFile = <<>>
              /\ outputFile' = <<sql>>
              /\ readings # <<>>
              /\ touGroups = groupByTOU(readings)
              /\ dailyReadings = aggregateToDaily(readings, tzOffset)
              /\ sql = buildArtifact(pipeline, clearExisting, touGroups, dailyReadings) ]_vars
    /\ [](Len(outputFile) <= 1)
    /\ [](pc = "failed" => outputFile = <<>>)
    /\ [](outputFile # <<>> => pc = "done" /\ exitCode = 0)
    /\ [][ pc = "done" => pc' = "done" /\ exitCode' = 0 /\ outputFile' = outputFile ]_vars

\* A merge run that wrote its artifact, and the artifact was executed afterwards.
C13_Witness ==
    /\ pipeline = "merge"
    /\ pc = "done"
    /\ exitCode = 0
    /\ Len(outputFile) = 1
    /\ outputFile[1] = sql
    /\ HasRows(sql)
    /\ Len(secondaryReadings) > 0
    /\ executions = 1

-----------------------------------------------------------------------------
(* Properties of the Reading Extractor (SpecExtract) *)

\* C14: on a well-formed document parseGreenButtonXML throws nothing, whether
\* or not the document has a feed root, a feed with entries, entries with
\* content; it returns the readings of the scopes that are there, which is the
\* empty sequence when the feed root is absent.
C14_AbsentRootsYieldNothing ==
    [][ (pc = "parsePrimary" /\ primaryDoc.wellFormed)
        => /\ pc' = "checkEmpty"
           /\ Len(readings') = Len(SelectSeq(DocReadings(primaryDoc), Qualifies))
           /\ (~primaryDoc.hasFeed => readings' = <<>>) ]_vars

-----------------------------------------------------------------------------
(* Properties of main() (Spec), continued: the inputs of the merge *)

\* C15: in a merge run with a missing primary or secondary input, the check
\* that finds it missing is followed by the fatal exit with a non-zero code and
\* no input is ever parsed; the parse of the primary starts only when both
\* inputs exist, and the parse of the secondary only behind the finished parse
\* of the primary.
C15_MergeSourceFault ==
    /\ [][ (pipeline = "merge"
            /\ \/ pc = "start" /\ ~primaryExists
               \/ pc = "checkSecondary" /\ ~secondaryExists)
           => (pc' = "failed" /\ exitCode' = 1) ]_vars
    /\ []((pipeline = "merge" /\ (~primaryExists \/ ~secondaryExists))
          => /\ pc \in {"start", "checkSecondary", "failed"}
             /\ primaryReadings = <<>> /\ secondaryReadings = <<>>)
    /\ []((pipeline = "merge" /\ pc = "parsePrimary")
          => primaryExists /\ secondaryExists /\ secondaryReadings = <<>>)
    /\ []((pipeline = "merge" /\ pc = "parseSecondary")
          => /\ ~ParseThrows(primaryDoc)
             /\ primaryReadings = parseGreenButtonXML(primaryDoc))
    /\ [][ secondaryReadings' # secondaryReadings => pc = "parseSecondary" ]_vars

\* A merge run whose primary input exists and holds readings, whose secondary
\* input is missing, and which ended in the fatal exit with nothing parsed.
C15_Witness ==
    /\ pipeline = "merge"
    /\ primaryExists /\ ~secondaryExists
    /\ DocReadings(primaryDoc) # <<>> /\ parseGreenButtonXML(primaryDoc) # <<>>
    /\ pc = "failed"
    /\ exitCode = 1
    /\ primaryReadings = <<>>

-----------------------------------------------------------------------------
(* Properties of the Daily Aggregator (SpecDaily), continued *)

\* The DailyTotal that holds reading i: the one of its date key.
DailyTotalOf(i) ==
    { k \in DOMAIN dailyReadings :
        dailyReadings[k].date = dateKey(readings[i].timestamp, tzOffset) }

\* C16: aggregateToDaily returns exactly one DailyTotal per date key of the
\* readings; readings that fall on the same date of America/Toronto are summed
\* into the same DailyTotal; the timestamp of a DailyTotal is 05:00:00 UTC of its
\* date; the DailyTotals are sorted by date, with strictly increasing timestamps.
C16_OneTotalPerDate ==
    Aggregated =>
      /\ Len(dailyReadings)
           = Cardinality({ dateKey(readings[i].timestamp, tzOffset) : i \in DOMAIN readings })
      /\ \A i \in DOMAIN readings : Cardinality(DailyTotalOf(i)) = 1
      /\ \A i, j \in DOMAIN readings :
            TorontoDate(readings[i].timestamp) = TorontoDate(readings[j].timestamp)
            => DailyTotalOf(i) = DailyTotalOf(j)
      /\ \A k \in DOMAIN dailyReadings :
            /\ dailyReadings[k].timestamp \div SecondsPerDay = dailyReadings[k].date
            /\ dailyReadings[k].timestamp % SecondsPerDay = 5 * SecondsPerHour
      /\ \A k, l \in DOMAIN dailyReadings :
            k < l => /\ dailyReadings[k].date < dailyReadings[l].date
                     /\ dailyReadings[k].timestamp < dailyReadings[l].timestamp

-----------------------------------------------------------------------------
(* SpecBatch: the single-file pipeline up to the generated artifact, over
   exports long enough to fill whole statements *)

MaxBatches == 2

\* Lengths around the multiples of the statement size.
BatchLengths == { k * batchSize + e : k \in 0..MaxBatches, e \in {-1, 0, 1} } \cap Nat

\* An export of n consecutive hours of 0.001 kWh at 0.001 CAD, the first m of them
\* on-peak and the others mid-peak.
BatchDoc(n, m) ==
    OneBlockDoc([ i \in 1..n |->
                    IR(ScenarioStart + (i - 1) * SecondsPerHour, hourlyDuration,
                       <<1000>>, <<100>>, IF i <= m THEN <<1>> ELSE <<2>>) ])

BatchDocs ==
    UNION { { BatchDoc(n, m) : m \in { l \in BatchLengths : l <= n } } : n \in BatchLengths }

InitBatch ==
    /\ pipeline = "single"
    /\ clearExisting = FALSE
    /\ tzOffset = 0
    /\ primaryExists = TRUE
    /\ secondaryExists = FALSE
    /\ primaryDoc \in BatchDocs
    /\ secondaryDoc = EmptyFeedDoc
    /\ db = NoDb
    /\ pc = "parsePrimary"
    /\ InitRun

NextBatch == ParsePrimary \/ CheckEmpty \/ Group \/ Aggregate \/ Generate

SpecBatch == InitBatch /\ [][NextBatch]_vars

\* The readings and the field that main() passes to generateStatisticSQL for a series.
SeriesInput(id) ==
    CASE id = statisticIds.onPeak      -> [rs |-> touGroups.onPeak,  field |-> "consumption"]
      [] id = statisticIds.midPeak     -> [rs |-> touGroups.midPeak, field |-> "consumption"]
      [] id = statisticIds.offPeak     -> [rs |-> touGroups.offPeak, field |-> "consumption"]
      [] id = statisticIds.onPeakCost  -> [rs |-> touGroups.onPeak,  field |-> "cost"]
      [] id = statisticIds.midPeakCost -> [rs |-> touGroups.midPeak, field |-> "cost"]
      [] id = statisticIds.offPeakCost -> [rs |-> touGroups.offPeak, field |-> "cost"]
      [] id = statisticIds.dailyUsage  -> [rs |-> dailyReadings,     field |-> "consumption"]
      [] id = statisticIds.dailyCost   -> [rs |-> dailyReadings,     field |-> "cost"]

\* The insert statements an artifact holds for one series, in order.
SeriesGroups(artifact, id) ==
    SelectSeq(artifact, LAMBDA st : st.kind = "insert" /\ st.id = id)

\* C17: for a series of n readings the artifact holds ceil(n / 500) insert
\* statements, none and no header when n = 0; every statement holds at most 500
\* rows and every one but the last exactly 500; the rows of the statements, in
\* order, are the readings of the series in their order, each once.
C17_Batching ==
    Generated =>
      \A id \in CatalogueIds :
        LET rs     == SeriesInput(id).rs
            field  == SeriesInput(id).field
            groups == SeriesGroups(sql, id)
            rows   == Flatten([ g \in DOMAIN groups |-> groups[g].rows ])
        IN  /\ Len(groups) = (Len(rs) + 499) \div 500
            /\ (Len(rs) = 0 => \A i \in DOMAIN sql :
                                  sql[i].kind \in {"comment", "insert"}
                                  => ("id" \in DOMAIN sql[i] => sql[i].id # id))
            /\ \A g \in DOMAIN groups :
                  /\ Len(groups[g].rows) >= 1
                  /\ Len(groups[g].rows) <= 500
                  /\ g < Len(groups) => Len(groups[g].rows) = 500
            /\ Len(rows) = Len(rs)
            /\ \A i \in DOMAIN rows :
                  /\ rows[i].start_ts = rs[i].timestamp
                  /\ rows[i].state = Round6(rs[i][field])

\* An artifact with a series of two statements, the second of one row, a series
\* of exactly one full statement, and a series without any statement.
C17_Witness ==
    /\ Generated
    /\ Len(SeriesGroups(sql, statisticIds.onPeak)) = 2
    /\ Len(SeriesGroups(sql, statisticIds.onPeak)[2].rows) = 1
    /\ Len(SeriesGroups(sql, statisticIds.onPeak)[1].rows) = 500
    /\ Len(touGroups.midPeak) = 500
    /\ Len(SeriesGroups(sql, statisticIds.midPeak)) = 1
    /\ SeriesGroups(sql, statisticIds.offPeak) = <<>>

-----------------------------------------------------------------------------
(* Properties of the artifact and of its execution (Spec), continued *)

\* The order in which the series get their insert statements.
SeriesOrder ==
    << <<"hydroone", "on_peak">>, <<"hydroone", "mid_peak">>, <<"hydroone", "off_peak">>,
       <<"hydroone", "on_peak_cost">>, <<"hydroone", "mid_peak_cost">>,
       <<"hydroone", "off_peak_cost">>,
       <<"hydroone", "daily_usage">>, <<"hydroone", "daily_cost">> >>

PlaceOf(id) == CHOOSE k \in DOMAIN SeriesOrder : SeriesOrder[k] = id

\* C18: the statements of every artifact are the delete statements (if any),
\* then 8 metadata registrations, one per series of the catalogue whether or not
\* it has readings, then the insert statements, series by series in the fixed
\* order; every insert statement comes behind the registration of its series,
\* and every row that an execution adds refers to a registered series.
C18_ArtifactOrder ==
    /\ [](Generated =>
            LET ex      == Executable(sql)
                deletes == { i \in DOMAIN ex : ex[i].kind = "delete" }
                regs    == { i \in DOMAIN ex : ex[i].kind = "meta" }
                inserts == { i \in DOMAIN ex : ex[i].kind = "insert" }
                nd      == Cardinality(deletes)
            IN  /\ deletes = 1..nd
                /\ regs = (nd + 1)..(nd + 8)
                /\ inserts = (nd + 9)..Len(ex)
                /\ { ex[i].id : i \in regs } = Range(SeriesOrder)
                /\ \A i, j \in inserts :
                      i < j => PlaceOf(ex[i].id) <= PlaceOf(ex[j].id)
                /\ \A i \in inserts : \E j \in regs : j < i /\ ex[j].id = ex[i].id)
    /\ [][ ExecuteStep =>
             \A r \in db'.statistics \ db.statistics :
               /\ r.metadata_id # 0
               /\ SeriesOf(db', r) \in Range(SeriesOrder) ]_vars

\* A clear-mode artifact with insert statements of four hourly series and the
\* daily ones, executed against the empty destination: the 8 series are
\* registered, mid-peak without a row, and rows of on-peak and daily cost are in.
C18_Witness ==
    /\ pc = "done" /\ clearExisting /\ executions = 1
    /\ touGroups.onPeak # <<>> /\ touGroups.offPeak # <<>> /\ touGroups.midPeak = <<>>
    /\ { m.statistic_id : m \in db.meta } = Range(SeriesOrder)
    /\ \E r \in db.statistics : SeriesOf(db, r) = statisticIds.onPeak
    /\ \E r \in db.statistics : SeriesOf(db, r) = statisticIds.dailyCost
    /\ \A r \in db.statistics : SeriesOf(db, r) # statisticIds.midPeak

-----------------------------------------------------------------------------
(* Properties of the Reading Extractor (SpecExtract), continued *)

\* The readings of s at timestamp t, in their order in s.
At(s, t) == SelectSeq(s, LAMBDA r : r.timestamp = t)

\* C19: the sequence parseGreenButtonXML returns is sorted ascending by
\* timestamp, and the readings of one timestamp are in the order in which the
\* document holds them (entry by entry, block by block, reading by reading).
C19_ExtractOrder ==
    Parsed =>
      LET kept == SelectSeq(DocReadings(primaryDoc), Qualifies)
          inDocumentOrder == [ i \in DOMAIN kept |-> MakeReading(kept[i]) ]
      IN  /\ \A i \in 1..(Len(readings) - 1) :
                readings[i].timestamp <= readings[i + 1].timestamp
          /\ \A t \in Timestamps(inDocumentOrder) \cup Timestamps(readings) :
                At(readings, t) = At(inDocumentOrder, t)

\* A document of two entries that holds a later reading before an earlier one,
\* and two different readings of one timestamp in different entries.
C19_Witness ==
    /\ Parsed
    /\ Len(primaryDoc.entries) = 2
    /\ Len(primaryDoc.entries[1].blocks[1]) = 2
    /\ primaryDoc.entries[1].blocks[1][1].start > primaryDoc.entries[1].blocks[1][2].start
    /\ Len(readings) = 3
    /\ readings[2].timestamp = readings[3].timestamp
    /\ readings[2] = MakeReading(primaryDoc.entries[1].blocks[1][1])
    /\ readings[3] = MakeReading(primaryDoc.entries[2].blocks[1][1])
    /\ readings[2] # readings[3]

-----------------------------------------------------------------------------
(* Properties of the Reading Merger (SpecMerge), continued *)

\* C20: the result of mergeReadings holds no two readings with the same
\* timestamp, whatever the primary and the secondary sequence are.
C20_MergeDeduplicated ==
    Merged =>
      \A i, j \in DOMAIN readings :
        i # j => readings[i].timestamp # readings[j].timestamp

-----------------------------------------------------------------------------
(* Properties of the rows of an artifact and of their import (Spec) *)

\* The rows the destination d holds for the series id.
StoredRows(d, id) == { r \in d.statistics : SeriesOf(d, r) = id }

\* C21: within each series of an artifact the start timestamps are strictly
\* increasing; executed against the empty destination, the artifact leaves for
\* every series as many rows as it emits, and the stored row of the last start
\* holds the sum of the last emitted row.
C21_RowIdentity ==
    /\ [](Generated =>
            \A id \in CatalogueIds :
              LET rows == SeriesRows(sql, id)
              IN  \A i \in 1..(Len(rows) - 1) : rows[i].start_ts < rows[i + 1].start_ts)
    /\ [][ (ExecuteStep /\ db = NoDb) =>
             \A id \in CatalogueIds :
               LET rows == SeriesRows(sql, id)
               IN  /\ Cardinality(StoredRows(db', id)) = Len(rows)
                   /\ \A r \in StoredRows(db', id) :
                         (\A q \in StoredRows(db', id) : q.start_ts <= r.start_ts)
                         => r.sum = rows[Len(rows)].sum ]_vars

\* The cumulative sum behind the last row of a series of an artifact; 0 without rows.
FinalSum(artifact, id) ==
    LET rows == SeriesRows(artifact, id)
    IN  IF rows = <<>> THEN 0 ELSE rows[Len(rows)].sum

\* The start timestamps of a series of an artifact, in order.
Starts(artifact, id) ==
    LET rows == SeriesRows(artifact, id)
    IN  [ i \in DOMAIN rows |-> rows[i].start_ts ]

\* C22: in every artifact the final sums of on_peak, mid_peak and off_peak add
\* up to the final sum of daily_usage, and those of the three cost series to the
\* final sum of daily_cost; a consumption series and its cost series have the
\* same start timestamps in the same order.
C22_CrossSeriesConservation ==
    Generated =>
      /\ FinalSum(sql, <<"hydroone", "on_peak">>) + FinalSum(sql, <<"hydroone", "mid_peak">>)
           + FinalSum(sql, <<"hydroone", "off_peak">>)
           = FinalSum(sql, <<"hydroone", "daily_usage">>)
      /\ FinalSum(sql, <<"hydroone", "on_peak_cost">>)
           + FinalSum(sql, <<"hydroone", "mid_peak_cost">>)
           + FinalSum(sql, <<"hydroone", "off_peak_cost">>)
           = FinalSum(sql, <<"hydroone", "daily_cost">>)
      /\ Starts(sql, <<"hydroone", "on_peak">>) = Starts(sql, <<"hydroone", "on_peak_cost">>)
      /\ Starts(sql, <<"hydroone", "mid_peak">>) = Starts(sql, <<"hydroone", "mid_peak_cost">>)
      /\ Starts(sql, <<"hydroone", "off_peak">>) = Starts(sql, <<"hydroone", "off_peak_cost">>)
      /\ Starts(sql, <<"hydroone", "daily_usage">>) = Starts(sql, <<"hydroone", "daily_cost">>)

\* An artifact of the merge pipeline with rows in all three tiers.
C22_Witness ==
    /\ Generated
    /\ pipeline = "merge"
    /\ SeriesRows(sql, statisticIds.onPeak) # <<>>
    /\ SeriesRows(sql, statisticIds.midPeak) # <<>>
    /\ SeriesRows(sql, statisticIds.offPeak) # <<>>
    /\ FinalSum(sql, statisticIds.dailyUsage) > FinalSum(sql, statisticIds.onPeak)
    /\ FinalSum(sql, statisticIds.dailyCost) > FinalSum(sql, statisticIds.offPeakCost)

-----------------------------------------------------------------------------
(* SpecIncremental: the single-file pipeline run on an export and, once its
   artifact is executed, run again on a later overlapping export of the same
   meter, both in default mode against one destination *)

MaxExportHours == 4

\* 2023-11-15T03:13:20Z (22:13 in Toronto): the hours of the exports cross midnight.
ExportStart == ScenarioStart + 5 * SecondsPerHour

\* What the meter can have recorded for hour h: even hours are on-peak, odd
\* hours mid-peak.
HourReadings(h) ==
    { IR(ExportStart + h * SecondsPerHour, hourlyDuration, <<v>>, <<v \div 50>>,
         IF h % 2 = 0 THEN <<1>> ELSE <<2>>) : v \in {500000, 300000} }

\* The exports of the hours a..b.
Exports(a, b) ==
    { irs \in [1..(b - a + 1) -> UNION { HourReadings(h) : h \in a..b }] :
        \A i \in DOMAIN irs : irs[i] \in HourReadings(a + i - 1) }

AllExports ==
    UNION { Exports(a, b) : a \in 0..MaxExportHours, b \in 0..MaxExportHours }

\* later starts later and ends later than earlier, overlaps it, and holds the
\* same reading for every hour they share.
LaterExport(earlier, later) ==
    /\ earlier # <<>> /\ later # <<>>
    /\ earlier[1].start < later[1].start
    /\ later[1].start <= earlier[Len(earlier)].start
    /\ earlier[Len(earlier)].start < later[Len(later)].start
    /\ \A i \in DOMAIN earlier, j \in DOMAIN later :
          earlier[i].start = later[j].start => earlier[i] = later[j]

InitIncremental ==
    /\ pipeline = "single"
    /\ clearExisting = FALSE
    /\ tzOffset = 0
    /\ primaryExists = TRUE
    /\ secondaryExists = FALSE
    /\ primaryDoc \in { OneBlockDoc(irs) : irs \in AllExports \ {<<>>} }
    /\ secondaryDoc = EmptyFeedDoc
    /\ db = NoDb
    /\ pc = "parsePrimary"
    /\ InitRun

\* The user downloads a later export and runs the script on it, with the same
\* output path; the destination keeps what the first artifact put there.
NextRun ==
    /\ pc = "done"
    /\ Len(outputFile) = 1
    /\ executions >= 1
    /\ \E irs \in AllExports :
          /\ LaterExport(primaryDoc.entries[1].blocks[1], irs)
          /\ primaryDoc' = OneBlockDoc(irs)
    /\ pc' = "parsePrimary"
    /\ primaryReadings' = <<>>
    /\ secondaryReadings' = <<>>
    /\ readings' = <<>>
    /\ touGroups' = noGroups
    /\ dailyReadings' = <<>>
    /\ sql' = <<>>
    /\ exitCode' = -1
    /\ UNCHANGED <<pipeline, clearExisting, tzOffset, primaryExists, secondaryExists,
                   secondaryDoc, outputFile, db, executions>>

NextIncremental ==
    \/ ParsePrimary
    \/ CheckEmpty
    \/ Group
    \/ Aggregate
    \/ Generate
    \/ Write
    \/ Execute
    \/ NextRun

SpecIncremental == InitIncremental /\ [][NextIncremental]_vars

\* A step that executes the artifact of the second run.
SecondImport == ExecuteStep /\ Len(outputFile) = 2

\* The rows of a series in d are coherent: in the order of their starts the sum
\* never decreases and grows from row to row by the later row's value.
Coherent(d, id) ==
    \A r, q \in StoredRows(d, id) :
      (/\ r.start_ts < q.start_ts
       /\ ~\E x \in StoredRows(d, id) : r.start_ts < x.start_ts /\ x.start_ts < q.start_ts)
      => (q.sum >= r.sum /\ q.sum - r.sum = q.state)

\* C23: behind the import of the second artifact, in every series of the
\* destination the stored sum never decreases with the start timestamp and
\* consecutive stored rows differ in their sums by the later row's value.
C23_IncrementalCoherent ==
    [][ SecondImport => \A id \in CatalogueIds : Coherent(db', id) ]_vars

\* What the second import does instead: it leaves every
\* stored row as it is and adds the rows of the second artifact whose series and
\* start are not stored, each with the value and the sum the second artifact
\* emits, counted from zero at the second export's first reading; rows added
\* next to each other are coherent with each other.
SecondImportAddsOwnSums ==
    [][ SecondImport =>
          /\ db.statistics \subseteq db'.statistics
          /\ \A id \in CatalogueIds :
                LET rows  == SeriesRows(sql, id)
                    added == StoredRows(db', id) \ StoredRows(db, id)
                IN  /\ \A i \in DOMAIN rows :
                          IF \E r \in StoredRows(db, id) : r.start_ts = rows[i].start_ts
                          THEN \A r \in added : r.start_ts # rows[i].start_ts
                          ELSE \E r \in added : /\ r.start_ts = rows[i].start_ts
                                                /\ r.state = rows[i].state
                                                /\ r.sum = rows[i].sum
                    /\ \A r \in added : \E i \in DOMAIN rows : r.start_ts = rows[i].start_ts
                    /\ \A r, q \in added :
                          (/\ r.start_ts < q.start_ts
                           /\ ~\E x \in StoredRows(db', id) :
                                 r.start_ts < x.start_ts /\ x.start_ts < q.start_ts)
                          => (q.sum >= r.sum /\ q.sum - r.sum = q.state) ]_vars

\* Both artifacts are imported; the second import added two on-peak rows behind
\* a stored one, and the sum of the first added row is below the stored sum
\* before it.
SumDropsAtBoundary ==
    /\ pc = "done" /\ Len(outputFile) = 2 /\ executions = 2
    /\ \E r, q, x \in StoredRows(db, statisticIds.onPeak) :
          /\ r.start_ts < q.start_ts /\ q.start_ts < x.start_ts
          /\ q.sum < r.sum
          /\ x.sum - q.sum = x.state
    /\ Cardinality(StoredRows(db, statisticIds.dailyUsage)) = 2

-----------------------------------------------------------------------------
(* The two pipelines on one document (Spec) *)

\* What the single-file main() assembles for a document, a clear flag and the
\* offset of the machine.
SingleArtifact(doc, clear, tz) ==
    buildArtifact("single", clear, groupByTOU(parseGreenButtonXML(doc)),
                  aggregateToDaily(parseGreenButtonXML(doc), tz))

\* The insert statements of an artifact for one series: its batches.
SeriesBatches(artifact, id) ==
    SelectSeq(artifact, LAMBDA st : st.kind = "insert" /\ st.id = id)

=============================================================================
